---- MODULE Spec2Model ----
(***************************************************************************)
(* carlink (src/main.rs): a tray-icon popup for a vehicle-control service. *)
(*                                                                         *)
(* Two parts are modelled.                                                 *)
(*   - The tray bridge of `app`: the unbounded mpsc channel, the take-once *)
(*     slot holding its receiver, the positioner future that toggles and   *)
(*     moves the window, and the detached listener thread that turns tray  *)
(*     events into points.                                                 *)
(*   - The routed views Home, Login, Vehicles and Vehicle over the atoms   *)
(*     SESSION_ID and VEHICLES.                                            *)
(*                                                                         *)
(* Spec is the program: the bridge next to the views as the router reaches *)
(* them from Home.  SpecViews is the Vehicles and Vehicle components alone, *)
(* rendered over any contents of the atoms and any route parameter.         *)
(*                                                                         *)
(* A future spawned by a component lives in that component's scope and is  *)
(* removed when the component is replaced; a panic on the runtime's thread *)
(* ends the program (proc = "aborted").                                    *)
(*                                                                         *)
(* Option<T> is held as a sequence: <<>> is None and <<v>> is Some(v).     *)
(* Every f64 is held as an integer count of half pixels, so that the       *)
(* divisions by 2. of the code are exact on the values that occur (tray    *)
(* rectangles and window widths are whole pixels).                         *)
(***************************************************************************)
EXTENDS Integers, Sequences, FiniteSets, TLC

\* ------------------------------------------------------------------ bounds
MaxStarts == 2        \* starts of the positioner future (use_future regenerations)
MaxClicks == 3        \* tray-icon events handled by the listener thread
MaxMenu   == 1        \* menu events handled by the listener thread
MaxLogins == 2        \* submissions of the login form
MaxRenders == 4       \* renders of one Vehicles component instance

\* ------------------------------------------------------------------ inputs
\* icon rectangles carried by tray events (whole pixels)
Rects ==
    { [left |-> 100, right |-> 140, top |-> 470, bottom |-> 500],
      [left |-> 7,   right |-> 10,  top |-> 2,   bottom |-> 20] }

\* outer widths the window handle may report (whole pixels, u32)
Widths == {300, 401}

\* session ids the client's login may return
Tokens == {"tok1", "tok2"}

\* vehicle lists the client may return, as the sequence of their vehicle_key
VehicleLists == { << >>, << "v1" >>, << "v1", "v2" >> }

\* ids a Route::Vehicle may carry
Ids == {"v1", "v2", "v3"}

\* the vehicles of the account at the service, each locked or unlocked there
Cars == {"v1", "v2"}

None == << >>
Some(v) == << v >>

\* enum Route
Home == [name |-> "Home", id |-> ""]
Login == [name |-> "Login", id |-> ""]
Vehicles == [name |-> "Vehicles", id |-> ""]
Vehicle(id) == [name |-> "Vehicle", id |-> id]

VARIABLES
    proc,        \* "running" | "teardown" | "aborted": the process / root scope
    panicAt,     \* history: "" or the call that panicked: "take" | "find" |
                 \* "session_id" | "login" | "lock"
    rxSlot,      \* RefCell<Option<rx>> of the channel signal: Some("rx") or None
    consumers,   \* receivers taken out of the slot and still owned by a future
    attempts,    \* times the use_future closure has run
    extracted,   \* times it obtained a receiver
    posPc,       \* positioner future: "unstarted" | "recv" | "body" | "done" | "dropped"
    cur,         \* the point bound by `while let Some((x, y))`, None outside the body
    queue,       \* points buffered in the channel
    sent,        \* history: points accepted by tx.send, in order
    received,    \* history: points returned by rx.recv, in order
    processed,   \* loop bodies completed
    visible,     \* window.is_visible()
    position,    \* window outer top-left, None until first set
    outerWidth,  \* window.outer_size().width; fixed, the window is not resizable
    listener,    \* "unspawned" | "running" | "panicked"
    events,      \* tray events taken from tray_channel
    sendCalls,   \* calls of tx.send
    lastRect,    \* rectangle of the last tray event handled, None before
    lastSend,    \* point passed to the last tx.send, None before
    menuSeen,    \* menu events printed
    route,       \* the router's current Route
    view,        \* Some(route) of the mounted component, None before the first render
    sessionId,   \* atom SESSION_ID: Option<String>
    vehicles,    \* atom VEHICLES: Option<Vec<Vehicle>>
    logins,      \* login futures of the mounted Login form still awaiting the client
    effectDep,   \* dependency kept by the use_effect hook: None until it first ran
    fetch,       \* the effect's future awaiting client.vehicles: Some(session id)
    fetchCount,  \* calls of client.vehicles made by the mounted Vehicles
    observed,    \* history: SESSION_ID as read by each render of the mounted Vehicles
    fetchLog,    \* history: for each call of client.vehicles, the atom and the argument
    lock,        \* signal `lock` of the mounted Vehicle: Option<bool>
    lockCall,    \* the onclick future awaiting client.lock / client.unlock
    lockOutcome, \* history: "none" | "ok" | "failed", how the last command's call ended
    inFlight,    \* onclick futures of the mounted Vehicle awaiting the client
    loginOk,     \* history: some call of client.login has returned
    carLocked    \* the service's state: carLocked[k] iff vehicle k is locked

bridgeVars == << rxSlot, consumers, attempts, extracted, posPc, cur, queue, sent,
                 received, processed, visible, position, outerWidth, listener,
                 events, sendCalls, lastRect, lastSend, menuSeen >>

viewVars == << route, view, sessionId, vehicles, logins, effectDep, fetch,
               fetchCount, observed, fetchLog, lock, lockCall, lockOutcome,
               inFlight, loginOk, carLocked >>

vars == << proc, panicAt, bridgeVars, viewVars >>

\* ------------------------------------------------------------ pure helpers
\* Option::take leaves None in the slot
takeKeeps(slot) == slot
take(slot) == None

\* the channel accepts a send while its receiver exists, in the slot or in a future
ChannelOpen == rxSlot # None \/ consumers > 0

\* Sender handles alive: the tx kept in the channel signal of the root scope and
\* the clone moved into the listener thread
ProducersThreadOnly == IF listener = "running" THEN 1 ELSE 0
Producers ==
    (IF proc = "teardown" THEN 0 ELSE 1) + (IF listener = "running" THEN 1 ELSE 0)

\* (left + (right - left) / 2., bottom), in half pixels
AnchorTop(r) == << 2 * r.left + ((2 * r.right - 2 * r.left) \div 2), 2 * r.top >>
Anchor(r) == << 2 * r.left + ((2 * r.right - 2 * r.left) \div 2), 2 * r.bottom >>

\* PhysicalPosition::new(x - size.width as f64 / 2., y), in half pixels
NewPositionTruncated(p, w) == << p[1] - 2 * (w \div 2), p[2] >>
NewPosition(p, w) == << p[1] - ((2 * w) \div 2), p[2] >>

\* window.set_visible(!window.is_visible())
ToggleShows(v) == TRUE
Toggle(v) == ~v

\* unbounded_channel: send appends, recv removes the oldest
Enqueue(q, p) == Append(q, p)
Newest(q) == q[Len(q)]
Oldest(q) == Head(q)
Rest(q) == Tail(q)

\* use_effect runs its future on the first render and when the dependency differs
EffectFiresAlways(dep, sid) == TRUE
EffectFires(dep, sid) == dep = None \/ dep[1] # sid

\* if let Some(session_id) = session_id
EffectFetchesAny(sid) == TRUE
EffectFetches(sid) == sid # None

\* vehicles.iter().find(|vehicle| &vehicle.vehicle_key == id) is Some
Found(list, id) == \E i \in 1..Len(list) : list[i] = id

\* hooks and futures of a component that is not mounted
InitHooks ==
    /\ logins = 0
    /\ effectDep = None
    /\ fetch = None
    /\ fetchCount = 0
    /\ observed = << >>
    /\ fetchLog = {}
    /\ lock = None
    /\ lockCall = None
    /\ lockOutcome = "none"
    /\ inFlight = 0

\* ------------------------------------------------------------------- Init
\* the channel signal holds (tx, RefCell::new(Some(rx))); the window is built
\* with_visible(false); nothing has been sent or printed
InitBridge ==
    /\ proc = "running"
    /\ panicAt = ""
    /\ rxSlot = Some("rx")
    /\ consumers = 0
    /\ attempts = 0
    /\ extracted = 0
    /\ posPc = "unstarted"
    /\ cur = None
    /\ queue = << >>
    /\ sent = << >>
    /\ received = << >>
    /\ processed = 0
    /\ visible = FALSE
    /\ position = None
    /\ outerWidth \in Widths
    /\ listener = "unspawned"
    /\ events = 0
    /\ sendCalls = 0
    /\ lastRect = None
    /\ lastSend = None
    /\ menuSeen = 0

InitListed ==
    /\ InitBridge
    /\ route = Home
    /\ view = None
    /\ sessionId = None
    /\ vehicles = Some(<< >>)
    /\ loginOk = FALSE
    /\ carLocked \in [Cars -> BOOLEAN]
    /\ InitHooks

Init ==
    /\ InitBridge
    /\ route = Home
    /\ view = None
    /\ sessionId = None
    /\ vehicles = None
    /\ loginOk = FALSE
    /\ carLocked \in [Cars -> BOOLEAN]
    /\ InitHooks

\* ------------------------------------------------------------ tray bridge
\* use_future closure: rx.borrow_mut().take().unwrap()
StartPositioner ==
    /\ proc = "running"
    /\ attempts < MaxStarts
    /\ attempts' = attempts + 1
    /\ IF rxSlot # None
       THEN /\ rxSlot' = take(rxSlot)
            /\ consumers' = consumers + 1
            /\ extracted' = extracted + 1
            /\ posPc' = "recv"
            /\ UNCHANGED << proc, panicAt >>
       ELSE /\ proc' = "aborted"
            /\ panicAt' = "take"
            /\ UNCHANGED << rxSlot, consumers, extracted, posPc >>
    /\ UNCHANGED << cur, queue, sent, received, processed, visible, position,
                    outerWidth, listener, events, sendCalls, lastRect, lastSend,
                    menuSeen >>
    /\ UNCHANGED viewVars

\* rx.recv().await returns: Some((x, y)) when a point is buffered, None when
\* none is and every Sender is gone (the loop ends and the receiver is
\* dropped); otherwise the future stays suspended
PositionerRecv ==
    /\ proc = "running"
    /\ posPc = "recv"
    /\ queue # << >> \/ Producers = 0
    /\ IF queue # << >>
       THEN /\ cur' = Some(Oldest(queue))
            /\ received' = Append(received, Oldest(queue))
            /\ queue' = Rest(queue)
            /\ posPc' = "body"
            /\ UNCHANGED consumers
       ELSE /\ posPc' = "done"
            /\ consumers' = 0
            /\ UNCHANGED << cur, received, queue >>
    /\ UNCHANGED << proc, panicAt, rxSlot, attempts, extracted, sent, processed,
                    visible, position, outerWidth, listener, events, sendCalls,
                    lastRect, lastSend, menuSeen >>
    /\ UNCHANGED viewVars

\* `while let`: after the body the future awaits rx.recv() again
AfterBodyOnce == "done"
AfterBody == "recv"

\* the loop body: outer_size, set_visible, set_outer_position
PositionerBody ==
    /\ proc = "running"
    /\ posPc = "body"
    /\ visible' = Toggle(visible)
    /\ position' = Some(NewPosition(cur[1], outerWidth))
    /\ processed' = processed + 1
    /\ cur' = None
    /\ posPc' = AfterBody
    /\ UNCHANGED << proc, panicAt, rxSlot, consumers, attempts, extracted, queue, sent,
                    received, outerWidth, listener, events, sendCalls, lastRect,
                    lastSend, menuSeen >>
    /\ UNCHANGED viewVars

\* thread::spawn of the polling loop, after the use_future hook of the same render
SpawnListener ==
    /\ proc = "running"
    /\ attempts > 0
    /\ listener = "unspawned"
    /\ listener' = "running"
    /\ UNCHANGED << proc, panicAt, rxSlot, consumers, attempts, extracted, posPc,
                    cur, queue,
                    sent, received, processed, visible, position, outerWidth,
                    events, sendCalls, lastRect, lastSend, menuSeen >>
    /\ UNCHANGED viewVars

\* menu_channel.try_recv() is Ok: the event is printed
ListenerMenu ==
    /\ proc # "aborted"
    /\ listener = "running"
    /\ menuSeen < MaxMenu
    /\ menuSeen' = menuSeen + 1
    /\ UNCHANGED << proc, panicAt, rxSlot, consumers, attempts, extracted, posPc,
                    cur, queue,
                    sent, received, processed, visible, position, outerWidth,
                    listener, events, sendCalls, lastRect, lastSend >>
    /\ UNCHANGED viewVars

\* tray_channel.try_recv() is Ok(event): tx.send(anchor).unwrap()
ListenerTrayShows(r) ==
    /\ proc # "aborted"
    /\ listener = "running"
    /\ events < MaxClicks
    /\ events' = events + 1
    /\ sendCalls' = sendCalls + 1
    /\ lastRect' = Some(r)
    /\ lastSend' = Some(Anchor(r))
    /\ IF ChannelOpen
       THEN /\ queue' = Enqueue(queue, Anchor(r))
            /\ sent' = Append(sent, Anchor(r))
            /\ UNCHANGED listener
       ELSE /\ listener' = "panicked"
            /\ UNCHANGED << queue, sent >>
    /\ visible' = TRUE
    /\ UNCHANGED << proc, panicAt, rxSlot, consumers, attempts, extracted, posPc, cur,
                    received, processed, position, outerWidth, menuSeen >>
    /\ UNCHANGED viewVars

ListenerTray(r) ==
    /\ proc # "aborted"
    /\ listener = "running"
    /\ events < MaxClicks
    /\ events' = events + 1
    /\ sendCalls' = sendCalls + 1
    /\ lastRect' = Some(r)
    /\ lastSend' = Some(Anchor(r))
    /\ IF ChannelOpen
       THEN /\ queue' = Enqueue(queue, Anchor(r))
            /\ sent' = Append(sent, Anchor(r))
            /\ UNCHANGED listener
       ELSE /\ listener' = "panicked"
            /\ UNCHANGED << queue, sent >>
    /\ UNCHANGED << proc, panicAt, rxSlot, consumers, attempts, extracted, posPc, cur,
                    received, processed, visible, position, outerWidth, menuSeen >>
    /\ UNCHANGED viewVars

\* ------------------------------------------------------------------ views
\* the hooks of the component being replaced are dropped and its futures removed
DropHooks ==
    /\ logins' = 0
    /\ effectDep' = None
    /\ fetch' = None
    /\ fetchCount' = 0
    /\ observed' = << >>
    /\ lock' = None
    /\ lockCall' = None
    /\ inFlight' = 0

\* Home: push Login without a session id, Vehicles with one
HomeTargetVehicles(sid) == Vehicles
HomeTarget(sid) == IF sid = None THEN Login ELSE Vehicles

HomeRender ==
    /\ proc = "running"
    /\ route = Home
    /\ view' = Some(Home)
    /\ route' = HomeTarget(sessionId)
    /\ DropHooks
    /\ UNCHANGED << proc, panicAt, bridgeVars, sessionId, vehicles, fetchLog,
                    lockOutcome, loginOk, carLocked >>

\* Login: the form is rendered
LoginRender ==
    /\ proc = "running"
    /\ route = Login
    /\ view # Some(Login)
    /\ view' = Some(Login)
    /\ DropHooks
    /\ UNCHANGED << proc, panicAt, bridgeVars, route, sessionId, vehicles, fetchLog,
                    lockOutcome, loginOk, carLocked >>

\* Login onsubmit: the future is spawned and awaits client.login
LoginSubmitEager ==
    /\ proc = "running"
    /\ view = Some(Login)
    /\ logins < MaxLogins
    /\ logins' = logins + 1
    /\ sessionId' = Some("tok1")
    /\ route' = Vehicles
    /\ UNCHANGED << proc, panicAt, bridgeVars, view, vehicles, effectDep, fetch,
                    fetchCount, observed, fetchLog, lock, lockCall, lockOutcome,
                    inFlight, loginOk, carLocked >>

LoginSubmit ==
    /\ proc = "running"
    /\ view = Some(Login)
    /\ logins < MaxLogins
    /\ logins' = logins + 1
    /\ UNCHANGED << proc, panicAt, bridgeVars, route, view, sessionId, vehicles,
                    effectDep, fetch, fetchCount, observed, fetchLog, lock, lockCall,
                    lockOutcome, inFlight, loginOk, carLocked >>

\* client.login returned t: set_session_id(Some(t)); navigator.push(Route::Vehicles)
LoginDone(t) ==
    /\ proc = "running"
    /\ view = Some(Login)
    /\ logins > 0
    /\ logins' = logins - 1
    /\ sessionId' = Some(t)
    /\ route' = Vehicles
    /\ loginOk' = TRUE
    /\ UNCHANGED << proc, panicAt, bridgeVars, view, vehicles, effectDep, fetch,
                    fetchCount, observed, fetchLog, lock, lockCall, lockOutcome,
                    inFlight, carLocked >>

\* client.login failed inside the client, which hands back a plain session id
\* and no error value: the panic unwinds through the future and the program;
\* set_session_id and navigator.push are not reached
LoginFail ==
    /\ proc = "running"
    /\ view = Some(Login)
    /\ logins > 0
    /\ logins' = logins - 1
    /\ proc' = "aborted"
    /\ panicAt' = "login"
    /\ UNCHANGED << bridgeVars, route, view, sessionId, vehicles, effectDep, fetch,
                    fetchCount, observed, fetchLog, lock, lockCall, lockOutcome,
                    inFlight, loginOk, carLocked >>

\* Vehicles: one render, the first of a new instance or a later one; the effect
\* replaces its future when it fires, and the future calls client.vehicles only
\* with Some session id
VehiclesRender ==
    LET mounted == view = Some(Vehicles)
        dep == IF mounted THEN effectDep ELSE None
        cnt == IF mounted THEN fetchCount ELSE 0
        obs == IF mounted THEN observed ELSE << >>
        old == IF mounted THEN fetch ELSE None
        fires == EffectFires(dep, sessionId)
        calls == fires /\ EffectFetches(sessionId)
    IN  /\ proc = "running"
        /\ route = Vehicles
        /\ Len(obs) < MaxRenders
        /\ view' = Some(Vehicles)
        /\ observed' = Append(obs, sessionId)
        /\ effectDep' = Some(sessionId)
        /\ fetch' = IF calls THEN Some(sessionId) ELSE IF fires THEN None ELSE old
        /\ fetchCount' = IF calls THEN cnt + 1 ELSE cnt
        /\ fetchLog' = IF calls
                       THEN fetchLog \cup {[atom |-> sessionId, arg |-> sessionId]}
                       ELSE fetchLog
        /\ logins' = 0
        /\ lock' = None
        /\ lockCall' = None
        /\ inFlight' = 0
        /\ UNCHANGED << proc, panicAt, bridgeVars, route, sessionId, vehicles,
                        lockOutcome, loginOk, carLocked >>

\* client.vehicles returned list: set_vehicles(Some(list))
FetchDone(list) ==
    /\ proc = "running"
    /\ view = Some(Vehicles)
    /\ fetch # None
    /\ fetch' = None
    /\ vehicles' = Some(list)
    /\ UNCHANGED << proc, panicAt, bridgeVars, route, view, sessionId, logins,
                    effectDep, fetchCount, observed, fetchLog, lock, lockCall,
                    lockOutcome, inFlight, loginOk, carLocked >>

\* a Link of the rendered list is followed
LinkClick(id) ==
    /\ proc = "running"
    /\ view = Some(Vehicles)
    /\ route = Vehicles
    /\ vehicles # None
    /\ Found(vehicles[1], id)
    /\ route' = Vehicle(id)
    /\ UNCHANGED << proc, panicAt, bridgeVars, view, sessionId, vehicles, logins,
                    effectDep, fetch, fetchCount, observed, fetchLog, lock, lockCall,
                    lockOutcome, inFlight, loginOk, carLocked >>

\* use_signal(cx, || Some(true)): the value `lock` starts with
InitialLock == Some(TRUE)

\* Vehicle: first render of the instance for route.id; find(..).unwrap() panics
\* when no vehicle of the list has that key
VehicleRender ==
    /\ proc = "running"
    /\ route.name = "Vehicle"
    /\ view # Some(route)
    /\ view' = Some(route)
    /\ logins' = 0
    /\ effectDep' = None
    /\ fetch' = None
    /\ fetchCount' = 0
    /\ observed' = << >>
    /\ lock' = InitialLock
    /\ lockCall' = None
    /\ inFlight' = 0
    /\ IF vehicles # None /\ ~Found(vehicles[1], route.id)
       THEN proc' = "aborted" /\ panicAt' = "find"
       ELSE UNCHANGED << proc, panicAt >>
    /\ UNCHANGED << bridgeVars, route, sessionId, vehicles, fetchLog, lockOutcome,
                    loginOk, carLocked >>

\* the value the command leaves in `lock` when its call returns
Flipped(isLocked) == ~isLocked

\* lock.set(None)
BusyFlagKeeps(l) == l
BusyFlag(l) == None

\* if is_locked { client.unlock } else { client.lock }
CallForSwapped(isLocked) == IF isLocked THEN "lock" ELSE "unlock"
CallFor(isLocked) == IF isLocked THEN "unlock" ELSE "lock"

\* the button's onclick, offered while `lock` is Some(is_locked): lock.set(None),
\* then the future unwraps the session id and calls client.unlock when
\* is_locked, client.lock otherwise
LockClick ==
    /\ proc = "running"
    /\ view # None
    /\ view[1].name = "Vehicle"
    /\ vehicles # None
    /\ lock # None
    /\ lock' = BusyFlag(lock)
    /\ IF sessionId = None
       THEN /\ proc' = "aborted"
            /\ panicAt' = "session_id"
            /\ UNCHANGED << lockCall, inFlight >>
       ELSE /\ lockCall' = Some([op |-> CallFor(lock[1]),
                                 key |-> view[1].id,
                                 sid |-> sessionId[1],
                                 isLocked |-> lock[1]])
            /\ inFlight' = inFlight + 1
            /\ UNCHANGED << proc, panicAt >>
    /\ lockOutcome' = "none"
    /\ UNCHANGED << bridgeVars, route, view, sessionId, vehicles, logins, effectDep,
                    fetch, fetchCount, observed, fetchLog, loginOk, carLocked >>

\* the awaited call returned, the service having locked or unlocked the
\* vehicle: lock.set(Some(!is_locked))
LockDone ==
    /\ proc = "running"
    /\ inFlight > 0
    /\ lockCall # None
    /\ lock' = Some(Flipped(lockCall[1].isLocked))
    /\ lockCall' = IF inFlight = 1 THEN None ELSE lockCall
    /\ inFlight' = inFlight - 1
    /\ lockOutcome' = "ok"
    /\ carLocked' = [k \in Cars |-> IF k = lockCall[1].key
                                     THEN lockCall[1].op = "lock"
                                     ELSE carLocked[k]]
    /\ UNCHANGED << proc, panicAt, bridgeVars, route, view, sessionId, vehicles,
                    logins, effectDep, fetch, fetchCount, observed, fetchLog,
                    loginOk >>

\* the awaited call failed inside the client, which unwraps its results: the
\* panic unwinds through the future and the program
LockFail ==
    /\ proc = "running"
    /\ inFlight > 0
    /\ lockCall # None
    /\ proc' = "aborted"
    /\ panicAt' = "lock"
    /\ lockCall' = IF inFlight = 1 THEN None ELSE lockCall
    /\ inFlight' = inFlight - 1
    /\ lockOutcome' = "failed"
    /\ UNCHANGED << bridgeVars, route, view, sessionId, vehicles, logins, effectDep,
                    fetch, fetchCount, observed, fetchLog, lock, loginOk, carLocked >>

\* some holder of use_set(&SESSION_ID) stores v
AtomSetSession(v) ==
    /\ proc = "running"
    /\ sessionId # v
    /\ sessionId' = v
    /\ UNCHANGED << proc, panicAt, bridgeVars, route, view, vehicles, logins,
                    effectDep, fetch, fetchCount, observed, fetchLog, lock, lockCall,
                    lockOutcome, inFlight, loginOk, carLocked >>

\* the root scope is dropped: its signals, its components and its futures go
\* with it, while the detached listener thread keeps the tx clone it was given
ScopeDrop ==
    /\ proc = "running"
    /\ posPc = "recv"
    /\ proc' = "teardown"
    /\ posPc' = "dropped"
    /\ consumers' = 0
    /\ rxSlot' = None
    /\ view' = None
    /\ DropHooks
    /\ UNCHANGED << attempts, extracted, cur, queue, sent, received, processed,
                    visible, position, outerWidth, listener, events, sendCalls,
                    lastRect, lastSend, menuSeen, route, sessionId, vehicles,
                    fetchLog, lockOutcome, loginOk, carLocked, panicAt >>

BridgeNext ==
    \/ StartPositioner
    \/ PositionerRecv
    \/ PositionerBody
    \/ SpawnListener
    \/ ListenerMenu
    \/ \E r \in Rects : ListenerTray(r)
    \/ ScopeDrop

ViewNext ==
    \/ HomeRender
    \/ LoginRender
    \/ LoginSubmit
    \/ \E t \in Tokens : LoginDone(t)
    \/ LoginFail
    \/ VehiclesRender
    \/ \E list \in VehicleLists : FetchDone(list)
    \/ \E id \in Ids : LinkClick(id)
    \/ VehicleRender
    \/ LockClick
    \/ LockDone
    \/ LockFail

Next == BridgeNext \/ ViewNext

Spec == Init /\ [][Next]_vars

\* The bridge alone, with the runtime polling the positioner future whenever
\* it can make progress
SpecBridge ==
    /\ Init
    /\ [][BridgeNext]_vars
    /\ WF_vars(PositionerRecv)
    /\ WF_vars(PositionerBody)

\* ---------------------------------------------------------- the views alone
\* Vehicles and Vehicle rendered for any route parameter over any contents of
\* the two atoms, with SESSION_ID rewritten at any time
InitViews ==
    /\ InitBridge
    /\ route \in {Vehicles} \cup {Vehicle(id) : id \in Ids}
    /\ view = None
    /\ sessionId \in {None} \cup {Some(t) : t \in Tokens}
    /\ vehicles \in {None} \cup {Some(list) : list \in VehicleLists}
    /\ loginOk = FALSE
    /\ carLocked \in [Cars -> BOOLEAN]
    /\ InitHooks

NextViews ==
    \/ \E v \in {None} \cup {Some(t) : t \in Tokens} : AtomSetSession(v)
    \/ VehiclesRender
    \/ \E list \in VehicleLists : FetchDone(list)
    \/ \E id \in Ids : LinkClick(id)
    \/ VehicleRender
    \/ LockClick
    \/ LockDone
    \/ LockFail

SpecViews == InitViews /\ [][NextViews]_vars

\* ------------------------------------------------------------------ claims
\* n whole pixels as a count of half pixels
Px(n) == 2 * n

IsPrefix(a, b) == Len(a) <= Len(b) /\ \A i \in 1..Len(a) : a[i] = b[i]

\* C1: however often the positioner future is started, exactly one start
\* obtains the receiver, every later start aborts the program, and there are
\* never two consumers of the channel.
C1_SingleConsumer ==
    /\ consumers <= 1
    /\ extracted = (IF attempts = 0 THEN 0 ELSE 1)
    /\ (attempts > 1 => proc = "aborted")

C1_Witness == attempts = 2 /\ extracted = 1 /\ consumers = 1 /\ proc = "aborted"

\* C2: the points the positioner has received are a prefix of the points the
\* listener has sent, and while the consumer lives the sent points are exactly
\* the received ones followed by those still buffered.
C2_OrderPreserved ==
    /\ IsPrefix(received, sent)
    /\ (consumers > 0 => sent = received \o queue)

C2_Witness ==
    /\ Len(sent) = 3
    /\ Len(received) = 2
    /\ received[1] # received[2]
    /\ queue = << sent[3] >>

\* C3: the window starts hidden and is visible exactly when the number of
\* points processed so far is odd.
C3_ToggleParity == visible <=> (processed % 2 = 1)

C3_Witness == processed = 3 /\ visible /\ Len(sent) = 3

\* C4: once a point (x, y) has been processed the window's outer top-left is
\* (x - w/2, y) for the outer width w, whichever way the visibility went.
C4_Positioned ==
    processed > 0 =>
        position = Some(<< received[processed][1] - outerWidth,
                           received[processed][2] >>)

C4_Witness ==
    /\ processed = 2
    /\ ~visible
    /\ outerWidth = 401
    /\ received[2] = << Px(100) + Px(20), Px(500) >>
    /\ position = Some(<< Px(120) - 401, Px(500) >>)

\* C5: each tray event handled makes one call of send, with the point
\* (left + (right - left)/2, bottom), and while the channel is open exactly
\* that point is enqueued; rect {100, 140, 500} gives (120, 500), and with
\* width 300 the window lands at (-30, 500).
C5_AnchorPoint ==
    /\ sendCalls = events
    /\ (lastRect # None =>
            lastSend = Some(<< lastRect[1].left + lastRect[1].right,
                               Px(lastRect[1].bottom) >>))
    /\ (listener = "running" => Len(sent) = events)
    /\ (listener = "running" /\ events > 0 => sent[Len(sent)] = lastSend[1])
    /\ (lastRect = Some([left |-> 100, right |-> 140, top |-> 470, bottom |-> 500])
            => lastSend = Some(<< Px(120), Px(500) >>))
    /\ (processed > 0 /\ received[processed] = << Px(120), Px(500) >>
            /\ outerWidth = 300
            => position = Some(<< Px(-30), Px(500) >>))

C5_Witness ==
    /\ events = 1
    /\ lastRect = Some([left |-> 100, right |-> 140, top |-> 470, bottom |-> 500])
    /\ sent = << << Px(120), Px(500) >> >>
    /\ processed = 1
    /\ outerWidth = 300
    /\ position = Some(<< Px(-30), Px(500) >>)

\* C6: a send that fails because the receiver is gone leaves the listener
\* thread running.
C6_ListenerSurvivesSendFailure == sendCalls > Len(sent) => listener = "running"

\* number of renders at which a present session id was seen first or changed
Edges(obs) ==
    Cardinality({ i \in 1..Len(obs) :
                    obs[i] # None /\ (i = 1 \/ obs[i] # obs[i - 1]) })

\* C7: a Vehicles instance has called client.vehicles once for each render at
\* which it saw a present session id differing from the one seen at its
\* previous render, and never for a repeated one.
C7_EdgeSensitiveFetch == fetchCount = Edges(observed)

C7_Witness ==
    /\ observed = << None, Some("tok1"), Some("tok1"), Some("tok2") >>
    /\ fetchCount = 2

\* C8: every call of client.vehicles was made while SESSION_ID was present and
\* was given that session id.
C8_FetchOnlyWithToken ==
    /\ \A e \in fetchLog : e.atom # None /\ e.arg = e.atom
    /\ (fetch # None => fetch[1] \in {e.arg : e \in fetchLog})

C8_Witness ==
    /\ Len(observed) >= 2
    /\ observed[1] = None
    /\ fetchCount = 1
    /\ fetchLog = {[atom |-> Some("tok1"), arg |-> Some("tok1")]}

\* C9: once a lock or unlock call has ended, in success or in failure, the
\* lock flag is Some(_) again.
C9_BusyResolves ==
    (view # None /\ view[1].name = "Vehicle" /\ lockOutcome # "none") => lock # None

\* C10: rendering Vehicle for an id that no vehicle of the stored list has does
\* not abort the program.
C10_UnfoundIsGraceful ==
    (/\ view # None
     /\ view[1].name = "Vehicle"
     /\ vehicles # None
     /\ ~Found(vehicles[1], view[1].id))
        => proc # "aborted"

\* C11: SESSION_ID is absent at the start, never goes from present to absent,
\* and changes only in the step in which a login call returns.
C11_TokenLifecycle ==
    /\ sessionId = None
    /\ [][/\ (sessionId # None => sessionId' # None)
          /\ (sessionId' # sessionId => \E t \in Tokens : LoginDone(t))]_vars

C11_Witness ==
    /\ sessionId = Some("tok2")
    /\ view = Some(Vehicle("v2"))
    /\ lockOutcome = "ok"

\* C12: as long as no login call has returned, SESSION_ID is absent and the
\* router stays on Home or Login, a failed call included.
C12_FailedLoginStaysOut ==
    ~loginOk =>
        /\ sessionId = None
        /\ route \in {Home, Login}
        /\ view \in {None, Some(Home), Some(Login)}

C12_Witness ==
    /\ panicAt = "login"
    /\ ~loginOk
    /\ sessionId = None
    /\ route = Login

\* everything but the count of printed menu events
exceptMenuSeen ==
    << proc, panicAt, rxSlot, consumers, attempts, extracted, posPc, cur, queue,
       sent, received, processed, visible, position, outerWidth, listener, events,
       sendCalls, lastRect, lastSend, viewVars >>

\* C13: the window's visibility and position change only in the positioner's
\* loop body, and a menu event changes nothing but what is printed.
C13_ExclusiveWindowMutation ==
    [][/\ (<< visible, position >>' # << visible, position >> => PositionerBody)
       /\ (ListenerMenu => UNCHANGED exceptMenuSeen)]_vars

C13_Witness ==
    /\ menuSeen > 0
    /\ events = 2
    /\ processed = 1
    /\ position # None
    /\ lockOutcome = "ok"

\* C14: a command issued at Some(b) sets the flag to None and starts the one
\* call, unlock for b and lock otherwise, for the shown vehicle with the
\* current session id; the flag goes from None to Some only when that call
\* returns, and then to Some(~b).
C14_LockCommand ==
    [][/\ (lock # None /\ lock' = None /\ view' = view =>
            /\ inFlight = 0
            /\ inFlight' = 1
            /\ lockCall' = Some([op |-> IF lock[1] THEN "unlock" ELSE "lock",
                                 key |-> view[1].id,
                                 sid |-> sessionId[1],
                                 isLocked |-> lock[1]]))
       /\ (lock = None /\ lock' # None /\ view' = view =>
            /\ LockDone
            /\ inFlight' = 0
            /\ lock' = Some(~lockCall[1].isLocked))]_vars

C14_Witness ==
    /\ lock = None
    /\ lockCall # None
    /\ lockCall[1].op = "lock"
    /\ lockCall[1].key = "v2"
    /\ lockCall[1].sid = "tok1"

\* C15: on entering Vehicle, before any command, the flag is Some(b) with b the
\* locked state of that vehicle.
C15_InitialFlagIsCarState ==
    (/\ proc = "running"
     /\ view # None
     /\ view[1].name = "Vehicle"
     /\ lockOutcome = "none"
     /\ lock # None)
        => lock = Some(carLocked[view[1].id])

\* C16: while the program runs, the k-th point sent is eventually processed,
\* and in the end as many points have been processed as were sent.
C16_EventuallyProcessed ==
    /\ \A k \in 1..MaxClicks :
          [](Len(sent) >= k => <>(processed >= k \/ proc # "running"))
    /\ <>[](processed = Len(sent) \/ proc # "running")

C16_Witness == proc = "running" /\ Len(sent) = 3 /\ processed = 3

\* C17: while the program runs, the started positioner is in its loop, awaiting
\* a point or handling one, and owns the receiver.
C17_PositionerStaysInLoop ==
    (proc = "running" /\ attempts > 0) =>
        (posPc \in {"recv", "body"} /\ consumers = 1)

C17_Witness ==
    /\ proc = "running"
    /\ posPc = "recv"
    /\ queue = << >>
    /\ listener = "running"
    /\ processed = 3

\* C18: Home leaves for Login when it finds no session id, and whenever the
\* route or the mounted view is Vehicles or Vehicle the session id is present.
C18_ViewsGatedBySession ==
    /\ (view = Some(Home) => sessionId = None /\ route = Login)
    /\ (route.name \in {"Vehicles", "Vehicle"} => sessionId # None)
    /\ (view # None /\ view[1].name \in {"Vehicles", "Vehicle"} => sessionId # None)

C18_Witness ==
    /\ view = Some(Vehicle("v1"))
    /\ route = Vehicle("v1")
    /\ sessionId = Some("tok2")

\* C19: a stored vehicle list, a fetch awaiting it or a command in flight
\* implies a present session id, and the handler's unwrap of the session id
\* never panics.
C19_ListImpliesToken ==
    /\ (vehicles # None \/ fetch # None \/ inFlight > 0 => sessionId # None)
    /\ panicAt # "session_id"

C19_Witness ==
    /\ vehicles = Some(<< "v1", "v2" >>)
    /\ inFlight = 1
    /\ sessionId # None
    /\ panicAt = ""

\* C20: at most one lock or unlock call is in flight, the flag is None exactly
\* while it is, and no command can be issued then.
C20_OneCallInFlight ==
    /\ inFlight <= 1
    /\ (inFlight = 1 => lock = None /\ lockCall # None)
    /\ (lock = None => ~ENABLED LockClick)

C20_Witness ==
    /\ inFlight = 1
    /\ lock = None
    /\ lockCall # None
    /\ lockCall[1].op = "unlock"

====
